---------------------------- MODULE Spec2Model ----------------------------
(***************************************************************************)
(* A model of two parts of eRPC:                                           *)
(*                                                                         *)
(*   - the Rpc endpoint scaffold (Rpc::Rpc, resolve_session, send_request, *)
(*     send_response, run_event_loop), specification SpecRpc;              *)
(*   - the InfiniBand transport (IBTransport: construction, the receive    *)
(*     ring set up by init_recvs, address-handle resolution, destruction), *)
(*     specification Spec.                                                 *)
(***************************************************************************)
EXTENDS Integers, Sequences, FiniteSets, TLC

\* ---------------------------------------------------------------- bounds

\* Slots of a session's request window (the N of "window size N").
WindowSize == 2
\* Distinct request buffers the application may submit.
MaxReqs == 3
\* Session-resolve messages followed before the model stops counting.
MaxResolveMsgs == 5
\* The connect retry budget R the handshake is specified with.
max_retries == 3

VARIABLES
    \* ---- Rpc endpoint
    rpc_pc,        \* "constructed" | "crashed"
    transport,     \* the Rpc member `transport`: "unset" or a transport object
    heap,          \* transport objects allocated with new and still live
    nexus_hooks,   \* hooks registered with the Nexus
    sess_state,    \* state of the Session object the application passes in
    window,        \* the session's request window: slot -> request id, 0 = free
    wire,          \* data packets handed to the transport so far
    resolve_msgs,  \* session-resolve (connect-request) messages sent so far
    ret,           \* what the last Rpc call reported to its caller
    call,          \* the last Rpc call and the state it was made in
    delivered,     \* request id -> results delivered to its continuation
    issued,        \* requests submitted on a CONNECTED session with a free slot
    tick           \* parity of the number of event-loop iterations run

rpcVars == <<rpc_pc, transport, heap, nexus_hooks, sess_state, window, wire,
             resolve_msgs, ret, call, delivered, issued, tick>>

VARIABLES
    \* ---- IBTransport: configuration and control
    is_roce,            \* the build's is_roce(); is_infiniband() is its negation
    phy_port,           \* the constructor's phy_port argument
    pc,                 \* the transport's position in its lifetime
    exc,                \* the exception thrown or the exit taken, "" if none
    \* ---- resolve_phy_port
    num_devices,        \* length of the device list
    dev_i,              \* device loop index
    port_i,             \* port loop index (ports are numbered from 1)
    phys_port_cnt,      \* device_attr.phys_port_cnt of the device being scanned
    ports_to_discover,  \* active ports still to skip
    active_seen,        \* ports ibv_query_port has reported active so far
    sel_active,         \* the port recorded in resolve was reported active
    open_ctx,           \* devices whose context is open
    resolve,            \* the resolve struct: device_id, dev_port_id, port_lid, gid
    \* ---- verbs resources
    acq,                \* resources held by the members, in order of acquisition
    rel,                \* resources released by the destructor, in order
    qp_state,           \* "none" | "RESET" | "INIT" | "RTR" | "RTS"
    use_fast_recv,
    \* ---- the receive ring
    ring_extent,        \* the Buffer huge_alloc->alloc returned: buf, lkey
    allocs,             \* calls of huge_alloc->alloc made
    loop_i,             \* index of the descriptor loops of init_recvs/init_sends
    recv_sgl,           \* i -> scatter/gather entry: length, lkey, addr
    recv_wr,            \* i -> work request: wr_id, sg_list, num_sge, next
    rx_ring,            \* i -> address of the payload area of ring entry i
    posted,             \* the descriptors ibv_post_recv walked, in order
    assert_failed,      \* an assert() of the code was false
    recvs_done,         \* init_recvs has returned
    send_wr,            \* i -> next of send work request i
    \* ---- remote routing info
    rinfo,              \* the routing info last passed to resolve_remote_routing_info
    rr_ret,             \* what that call returned, FALSE before the first call
    ah_made             \* address handles created for peers

cfgVars == <<is_roce, phy_port>>
scanVars == <<num_devices, dev_i, port_i, phys_port_cnt, ports_to_discover,
              active_seen, sel_active>>
resVars == <<acq, rel, qp_state, use_fast_recv>>
recvVars == <<ring_extent, allocs, loop_i, recv_sgl, recv_wr, rx_ring, posted,
              assert_failed, recvs_done, send_wr>>
ahVars == <<rinfo, rr_ret, ah_made>>
ibVars == <<cfgVars, pc, exc, scanVars, open_ctx, resolve, resVars, recvVars,
            ahVars>>

vars == <<rpcVars, ibVars>>

\* ------------------------------------------------------------ Rpc: state

Slots == 1..WindowSize
ReqIds == 1..MaxReqs
NoReq == 0

\* The session states of the design (the Session type is declared in rpc.h).
SessionStates ==
    {"RESET", "CONNECT_IN_PROGRESS", "CONNECTED", "DISCONNECT_IN_PROGRESS"}

\* A window: each slot free or holding one request, no request in two slots.
Windows ==
    {w \in [Slots -> ReqIds \cup {NoReq}] :
        \A s, t \in Slots : (s # t /\ w[s] # NoReq) => w[s] # w[t]}

InFlight(w) == {w[s] : s \in Slots} \ {NoReq}
WindowIsFull(w) == \A s \in Slots : w[s] # NoReq

NoCall == [op |-> "none", sstate |-> "none", win |-> [s \in Slots |-> NoReq],
           wire |-> 0, req |-> NoReq, msgs |-> 0]

ThisCall(op, req) ==
    [op |-> op, sstate |-> sess_state, win |-> window, wire |-> wire,
     req |-> req, msgs |-> resolve_msgs]

\* Rpc::Rpc: the new transport is bound to a constructor-local variable named
\* like the member, so the member is never assigned and the object is never
\* freed; the session-management hook is registered with the Nexus.
RpcCtor ==
    /\ rpc_pc = "constructed"
    /\ transport = "unset"
    /\ heap = {"Transport_1"}
    /\ nexus_hooks = {"sm_hook"}

\* The state after construction, with a Session the application owns.
RpcConstructed ==
    /\ RpcCtor
    /\ sess_state \in SessionStates
    /\ window \in Windows
    /\ wire = 0
    /\ resolve_msgs = 0
    /\ ret = "none"
    /\ call = NoCall
    /\ delivered = [r \in ReqIds |-> <<>>]
    /\ issued = {}
    /\ tick = 0

\* ------------------------------------------------------- Rpc: operations

\* Rpc::send_request(const Session &, const Buffer &): both arguments are
\* unused; the function returns nothing and changes nothing.
send_request(req) ==
    /\ rpc_pc = "constructed"
    /\ call' = ThisCall("send_request", req)
    /\ ret' = "void"
    /\ issued' = IF sess_state = "CONNECTED" /\ ~WindowIsFull(window)
                 THEN issued \cup {req} ELSE issued
    /\ UNCHANGED <<ibVars, rpc_pc, transport, heap, nexus_hooks, sess_state, window,
                   wire, resolve_msgs, delivered, tick>>

\* Rpc::send_response(const Session &, const Buffer &): the same.
send_response(req) ==
    /\ rpc_pc = "constructed"
    /\ call' = ThisCall("send_response", req)
    /\ ret' = "void"
    /\ UNCHANGED <<ibVars, rpc_pc, transport, heap, nexus_hooks, sess_state, window,
                   wire, resolve_msgs, delivered, issued, tick>>

\* Rpc::run_event_loop: an empty body; only the iteration itself is observed.
run_event_loop ==
    /\ rpc_pc = "constructed"
    /\ tick' = 1 - tick
    /\ UNCHANGED <<ibVars, rpc_pc, transport, heap, nexus_hooks, sess_state, window,
                   wire, resolve_msgs, ret, call, delivered, issued>>

\* Rpc::resolve_session: transport->send_resolve_session_msg(session) through
\* the member the constructor never set. The call either faults or runs on
\* whatever object the pointer happens to address and sends one message.
resolve_session ==
    /\ rpc_pc = "constructed"
    /\ resolve_msgs < MaxResolveMsgs
    /\ call' = ThisCall("resolve_session", NoReq)
    /\ ret' = "void"
    /\ \/ /\ transport = "unset"
          /\ rpc_pc' = "crashed"
          /\ UNCHANGED resolve_msgs
       \/ /\ rpc_pc' = rpc_pc
          /\ resolve_msgs' = resolve_msgs + 1
    /\ UNCHANGED <<ibVars, transport, heap, nexus_hooks, sess_state, window, wire,
                   delivered, issued, tick>>

\* A faulty disconnect: SessionClosed goes to every request, in flight or not.
disconnect_everyone ==
    /\ rpc_pc = "constructed"
    /\ sess_state = "CONNECTED"
    /\ call' = ThisCall("disconnect", NoReq)
    /\ ret' = "void"
    /\ delivered' = [r \in ReqIds |-> Append(delivered[r], "SessionClosed")]
    /\ window' = [s \in Slots |-> NoReq]
    /\ sess_state' = "freed"
    /\ UNCHANGED <<ibVars, rpc_pc, transport, heap, nexus_hooks, wire,
                   resolve_msgs, issued, tick>>

\* disconnect(session), as the design describes it: every in-flight request's
\* continuation is given SessionClosed, the slots are freed, the session goes.
disconnect ==
    /\ rpc_pc = "constructed"
    /\ sess_state = "CONNECTED"
    /\ call' = ThisCall("disconnect", NoReq)
    /\ ret' = "void"
    /\ delivered' = [r \in ReqIds |->
                        IF r \in InFlight(window)
                        THEN Append(delivered[r], "SessionClosed")
                        ELSE delivered[r]]
    /\ window' = [s \in Slots |-> NoReq]
    /\ sess_state' = "freed"
    /\ UNCHANGED <<ibVars, rpc_pc, transport, heap, nexus_hooks, wire, resolve_msgs,
                   issued, tick>>

\* ------------------------------------------------- IBTransport: constants

\* Bounds of the environment the transport is constructed in.
MaxDevices == 2
MaxPorts == 2
MaxPhyPort == 1
MaxLid == 1
MaxPeerAh == 2

\* Entries of the receive ring (Transport::kNumRxRingEntries), scaled down.
kNumRxRingEntries == 3
\* The RECV queue holds one descriptor per ring entry (ib_transport.h).
kRQDepth == kNumRxRingEntries
\* Payload bytes of one packet (IBTransport::kMTU), scaled down.
kMTU == 8
\* Bytes of the global routing header the NIC writes before the payload.
kGRHBytes == 40
\* "each slot of size kRecvSize = (kMTU + 64)"
kRecvSize == kMTU + 64
\* Send work requests chained by init_sends (IBTransport::kPostlist), scaled.
kPostlist == 2

NullPtr == -1
Lids == 1..MaxLid
PortStates == {"DOWN", "ACTIVE", "ACTIVE_DEFER"}
LinkLayers == {"INFINIBAND", "ETHERNET"}
\* enum_to_mtu(port_attr.active_mtu): below, at and above the class's kMTU.
ActiveMtus == {kMTU - 1, kMTU, 2 * kMTU}
\* Where the allocator may place the ring extent, and the keys it may give.
ExtentBases == {0, 4096}
LKeys == {7, 9}

RingIdx == 0..(kRQDepth - 1)

NoResolve == [device_id |-> -1, ib_ctx |-> NullPtr, dev_port_id |-> 0,
              port_lid |-> 0, gid |-> 0]
NoAhAttr == [is_global |-> 0, dlid |-> 0, sl |-> 0, src_path_bits |-> 0,
             port_num |-> 0, dgid |-> 0]
\* A routing info: ah is the address handle, ah_attr what it was created with.
NoRInfo == [port_lid |-> 0, gid |-> 0, qpn |-> 0, ah |-> NullPtr,
            ah_attr |-> NoAhAttr]

\* Descriptors not written yet: length 0 and num_sge 0 mark them.
NoSgl == [length |-> 0, lkey |-> 0, addr |-> NullPtr]
NoWr == [wr_id |-> 0, sg_list |-> NullPtr, num_sge |-> 0, next |-> NullPtr]

\* The resources a live member holds: acquired and not yet released.
Range(s) == {s[k] : k \in 1..Len(s)}
Live == Range(acq) \ Range(rel)

\* The Rpc part at rest, for the transport's specification.
RpcAtRest ==
    /\ RpcCtor
    /\ sess_state = "RESET"
    /\ window = [s \in Slots |-> NoReq]
    /\ wire = 0
    /\ resolve_msgs = 0
    /\ ret = "none"
    /\ call = NoCall
    /\ delivered = [r \in ReqIds |-> <<>>]
    /\ issued = {}
    /\ tick = 0

\* The transport's members before the constructor body runs.
IbMembers ==
    /\ pc = "rp_start"
    /\ exc = ""
    /\ num_devices = 0
    /\ dev_i = 0
    /\ port_i = 0
    /\ phys_port_cnt = 0
    /\ ports_to_discover = 0
    /\ active_seen = 0
    /\ sel_active = FALSE
    /\ open_ctx = {}
    /\ resolve = NoResolve
    /\ acq = <<>>
    /\ rel = <<>>
    /\ qp_state = "none"
    /\ use_fast_recv = FALSE
    /\ ring_extent = [buf |-> NullPtr, lkey |-> 0]
    /\ allocs = 0
    /\ loop_i = 0
    /\ recv_sgl = [i \in RingIdx |-> NoSgl]
    /\ recv_wr = [i \in RingIdx |-> NoWr]
    /\ rx_ring = [i \in 0..(kNumRxRingEntries - 1) |-> NullPtr]
    /\ posted = <<>>
    /\ assert_failed = FALSE
    /\ recvs_done = FALSE
    /\ send_wr = [i \in 0..(kPostlist - 1) |-> NullPtr]
    /\ rinfo = NoRInfo
    /\ rr_ret = FALSE
    /\ ah_made = 0

\* IBTransport::IBTransport(rpc_id, phy_port), entered.
Init ==
    /\ RpcAtRest
    /\ is_roce \in BOOLEAN
    /\ phy_port \in 0..MaxPhyPort
    /\ IbMembers

\* The transport untouched, for the Rpc part's specification.
IbAtRest ==
    /\ is_roce = FALSE
    /\ phy_port = 0
    /\ IbMembers

\* An exception leaves the constructor (no object, the destructor never runs)
\* or init_hugepage_structures (the object stays).
Throw(where, msg) ==
    /\ pc' = where
    /\ exc' = msg

\* ---------------------------------------------- IBTransport: resolve_phy_port

\* ibv_get_device_list, and ports_to_discover = phy_port.
rp_start ==
    /\ pc = "rp_start"
    /\ \/ /\ Throw("ctor_thrown", "Failed to get InfiniBand device list")
          /\ UNCHANGED <<scanVars>>
       \/ /\ num_devices' \in 0..MaxDevices
          /\ ports_to_discover' = phy_port
          /\ dev_i' = 0
          /\ pc' = "rp_open"
          /\ UNCHANGED <<exc, port_i, phys_port_cnt, active_seen, sel_active>>
    /\ UNCHANGED <<rpcVars, cfgVars, open_ctx, resolve, resVars, recvVars, ahVars>>

\* The head of the device loop: ibv_open_device(dev_list[dev_i]), or the end
\* of the list, where resolution has failed.
rp_open ==
    /\ pc = "rp_open"
    /\ IF dev_i < num_devices
       THEN \/ /\ Throw("ctor_thrown", "Failed to open dev")
               /\ UNCHANGED <<open_ctx, assert_failed>>
            \/ /\ open_ctx' = open_ctx \cup {dev_i}
               /\ pc' = "rp_query_device"
               /\ UNCHANGED <<exc, assert_failed>>
       ELSE /\ Throw("ctor_thrown", "Failed to resolve InfiniBand port index")
            /\ assert_failed' = (assert_failed \/ resolve.ib_ctx # NullPtr)
            /\ UNCHANGED open_ctx
    /\ UNCHANGED <<rpcVars, cfgVars, scanVars, resolve, resVars, ahVars, ring_extent,
                   allocs, loop_i, recv_sgl, recv_wr, rx_ring, posted,
                   recvs_done, send_wr>>

\* ibv_query_device, which gives the device's port count.
rp_query_device ==
    /\ pc = "rp_query_device"
    /\ \/ /\ Throw("ctor_thrown", "Failed to query InfiniBand device")
          /\ UNCHANGED <<phys_port_cnt, port_i>>
       \/ /\ phys_port_cnt' \in 0..MaxPorts
          /\ port_i' = 1
          /\ pc' = "rp_port"
          /\ UNCHANGED exc
    /\ UNCHANGED <<rpcVars, cfgVars, num_devices, dev_i, ports_to_discover,
                   active_seen, sel_active, open_ctx, resolve, resVars,
                   recvVars, ahVars>>

\* The checks made of the port resolution stops at; "" when all pass.
PortMismatch(link_layer, active_mtu) ==
    IF ~is_roce /\ link_layer # "INFINIBAND"
    THEN "Transport type required is InfiniBand but port link layer differs"
    ELSE IF is_roce /\ link_layer # "ETHERNET"
    THEN "Transport type required is RoCE but port link layer differs"
    ELSE IF kMTU > active_mtu
    THEN "Transport's required MTU exceeds active_mtu"
    ELSE ""

\* A scan that takes every port for an enabled one.
PortIsActive_any(phys_state) == TRUE

PortIsActive(phys_state) == phys_state \in {"ACTIVE", "ACTIVE_DEFER"}

\* One iteration of the port loop: ibv_query_port, then skip, count or select.
\* On return the function's locals are gone (they are left at 0).
rp_port ==
    /\ pc = "rp_port"
    /\ port_i <= phys_port_cnt
    /\ \/ /\ Throw("ctor_thrown", "Failed to query port")
          /\ UNCHANGED <<port_i, ports_to_discover, resolve, acq, active_seen,
                         sel_active>>
       \/ \E phys_state \in PortStates, link_layer \in LinkLayers,
             active_mtu \in ActiveMtus, lid \in Lids :
            /\ IF ~PortIsActive(phys_state)
               THEN /\ port_i' = port_i + 1
                    /\ UNCHANGED <<pc, exc, ports_to_discover, resolve, acq>>
               ELSE IF ports_to_discover # 0
               THEN /\ ports_to_discover' = ports_to_discover - 1
                    /\ port_i' = port_i + 1
                    /\ UNCHANGED <<pc, exc, resolve, acq>>
               ELSE IF PortMismatch(link_layer, active_mtu) # ""
               THEN /\ Throw("ctor_thrown", PortMismatch(link_layer, active_mtu))
                    /\ UNCHANGED <<port_i, ports_to_discover, resolve, acq>>
               ELSE \/ /\ resolve' = [device_id |-> dev_i, ib_ctx |-> dev_i,
                                      dev_port_id |-> port_i, port_lid |-> lid,
                                      gid |-> IF is_roce THEN 1 ELSE 0]
                       /\ acq' = Append(acq, "ctx")
                       /\ pc' = "alloc_pd"
                       /\ port_i' = 0
                       /\ UNCHANGED <<exc, ports_to_discover>>
                    \/ /\ is_roce
                       /\ resolve' = [device_id |-> dev_i, ib_ctx |-> dev_i,
                                      dev_port_id |-> port_i, port_lid |-> lid,
                                      gid |-> 0]
                       /\ acq' = Append(acq, "ctx")
                       /\ Throw("ctor_thrown", "Failed to query GID")
                       /\ UNCHANGED <<port_i, ports_to_discover>>
            \* What the hardware said of this port, kept for the record.
            /\ active_seen' = IF phys_state \in {"ACTIVE", "ACTIVE_DEFER"}
                              THEN active_seen + 1 ELSE active_seen
            /\ sel_active' = IF resolve' # resolve
                             THEN phys_state \in {"ACTIVE", "ACTIVE_DEFER"}
                             ELSE sel_active
    /\ IF pc' = "alloc_pd"
       THEN num_devices' = 0 /\ dev_i' = 0 /\ phys_port_cnt' = 0
       ELSE UNCHANGED <<num_devices, dev_i, phys_port_cnt>>
    /\ UNCHANGED <<rpcVars, cfgVars, open_ctx, rel, qp_state, use_fast_recv,
                   recvVars, ahVars>>

\* After the port loop: ibv_close_device, and on to the next device.
rp_close ==
    /\ pc = "rp_port"
    /\ port_i > phys_port_cnt
    /\ \/ /\ Throw("ctor_thrown", "Failed to close InfiniBand device")
          /\ UNCHANGED <<open_ctx, dev_i>>
       \/ /\ open_ctx' = open_ctx \ {dev_i}
          /\ dev_i' = dev_i + 1
          /\ pc' = "rp_open"
          /\ UNCHANGED exc
    /\ UNCHANGED <<rpcVars, cfgVars, num_devices, port_i, phys_port_cnt,
                   ports_to_discover, active_seen, sel_active, resolve,
                   resVars, recvVars, ahVars>>

resolve_phy_port == rp_start \/ rp_open \/ rp_query_device \/ rp_port \/ rp_close

\* ------------------------------------------- IBTransport: init_verbs_structs

\* The resources a resource is created from: the PD and both CQs from the
\* device context, the QP from the PD and the CQs, an address handle from the PD.
CreatedFrom(r) ==
    CASE r = "pd" -> {"ctx"}
      [] r = "send_cq" -> {"ctx"}
      [] r = "recv_cq" -> {"ctx"}
      [] r = "qp" -> {"pd", "send_cq", "recv_cq"}
      [] r = "self_ah" -> {"pd"}
      [] OTHER -> {}

\* One creation call of init_verbs_structs: the resource, or null and rt_assert
\* throws.
Create(at, r, then, msg) ==
    /\ pc = at
    /\ \/ /\ Throw("ctor_thrown", msg)
          /\ UNCHANGED acq
       \/ /\ acq' = Append(acq, r)
          /\ pc' = then
          /\ UNCHANGED exc

alloc_pd ==
    /\ Create("alloc_pd", "pd", "create_send_cq", "Failed to allocate PD")
    /\ assert_failed' = (assert_failed \/ resolve.ib_ctx = NullPtr
                                       \/ resolve.device_id = -1)
    /\ UNCHANGED <<rpcVars, cfgVars, scanVars, open_ctx, resolve, rel, qp_state,
                   use_fast_recv, ahVars, ring_extent, allocs, loop_i,
                   recv_sgl, recv_wr, rx_ring, posted, recvs_done, send_wr>>

create_send_cq ==
    /\ Create("create_send_cq", "send_cq", "create_recv_cq",
              "Failed to create SEND CQ")
    /\ UNCHANGED <<rpcVars, cfgVars, scanVars, open_ctx, resolve, rel, qp_state,
                   use_fast_recv, recvVars, ahVars>>

create_recv_cq ==
    /\ Create("create_recv_cq", "recv_cq", "create_qp",
              "Failed to create SEND CQ")
    /\ UNCHANGED <<rpcVars, cfgVars, scanVars, open_ctx, resolve, rel, qp_state,
                   use_fast_recv, recvVars, ahVars>>

\* ibv_create_qp: a new QP is in the RESET state.
create_qp ==
    /\ Create("create_qp", "qp", "modify_init", "Failed to create QP")
    /\ qp_state' = IF pc' = "modify_init" THEN "RESET" ELSE qp_state
    /\ UNCHANGED <<rpcVars, cfgVars, scanVars, open_ctx, resolve, rel, use_fast_recv,
                   recvVars, ahVars>>

\* One ibv_modify_qp of init_verbs_structs: the QP moves, or the call fails
\* and a runtime_error is thrown.
Modify(at, to, then, msg) ==
    /\ pc = at
    /\ \/ /\ Throw("ctor_thrown", msg)
          /\ UNCHANGED qp_state
       \/ /\ qp_state' = to
          /\ pc' = then
          /\ UNCHANGED exc
    /\ UNCHANGED <<rpcVars, cfgVars, scanVars, open_ctx, resolve, acq, rel,
                   use_fast_recv, recvVars, ahVars>>

modify_init == Modify("modify_init", "INIT", "modify_rtr", "Failed to modify QP to init")
\* A setup that asks for RTS where RTR is due.
modify_rtr_skip == Modify("modify_rtr", "RTS", "create_self_ah", "Failed to modify QP to RTR")

modify_rtr == Modify("modify_rtr", "RTR", "create_self_ah", "Failed to modify QP to RTR")
modify_rts == Modify("modify_rts", "RTS", "probe", "Failed to modify QP to RTS")

\* fill_local_routing_info: the port's LID, the QP's number, the GID for RoCE.
fill_local_routing_info ==
    [port_lid |-> resolve.port_lid,
     qpn |-> IF "qp" \in Live THEN 1 ELSE 0,
     gid |-> IF is_roce THEN resolve.gid ELSE 0,
     ah |-> NullPtr,
     ah_attr |-> NoAhAttr]

\* create_ah: the attributes ibv_create_ah is called with.
create_ah(ib_rinfo) ==
    [is_global |-> IF is_roce THEN 1 ELSE 0,
     dlid |-> IF is_roce THEN 0 ELSE ib_rinfo.port_lid,
     sl |-> 0,
     src_path_bits |-> 0,
     port_num |-> resolve.dev_port_id,
     dgid |-> IF is_roce THEN ib_rinfo.gid ELSE 0]

\* The self address handle, created from the local routing info.
create_self_ah ==
    /\ Create("create_self_ah", "self_ah", "modify_rts", "Failed to create self AH.")
    /\ UNCHANGED <<rpcVars, cfgVars, scanVars, open_ctx, resolve, rel, qp_state,
                   use_fast_recv, recvVars, ahVars>>

\* The probe for fast RECVs: only modded drivers answer kModdedProbeRet.
probe ==
    /\ pc = "probe"
    /\ use_fast_recv' \in BOOLEAN
    /\ pc' = "init_mem_reg_funcs"
    /\ UNCHANGED <<rpcVars, cfgVars, exc, scanVars, open_ctx, resolve, acq, rel,
                   qp_state, recvVars, ahVars>>

init_verbs_structs ==
    \/ alloc_pd
    \/ create_send_cq
    \/ create_recv_cq
    \/ create_qp
    \/ modify_init
    \/ modify_rtr
    \/ create_self_ah
    \/ modify_rts
    \/ probe

\* init_mem_reg_funcs binds the registration functions to the PD; the
\* constructor then returns.
init_mem_reg_funcs ==
    /\ pc = "init_mem_reg_funcs"
    /\ assert_failed' = (assert_failed \/ "pd" \notin Live)
    /\ pc' = "constructed"
    /\ UNCHANGED <<rpcVars, cfgVars, exc, scanVars, open_ctx, resolve, resVars, ahVars,
                   ring_extent, allocs, loop_i, recv_sgl, recv_wr, rx_ring,
                   posted, recvs_done, send_wr>>

\* --------------------------------------- IBTransport: the receive ring

\* init_hugepage_structures: keeps the allocator, then init_recvs, init_sends.
init_hugepage_structures ==
    /\ pc = "constructed"
    /\ pc' = "recvs_alloc"
    /\ UNCHANGED <<rpcVars, cfgVars, exc, scanVars, open_ctx, resolve, resVars,
                   recvVars, ahVars>>

ring_extent_size == kNumRxRingEntries * kRecvSize

\* A faulty init_recvs: the buffer is used without the null check.
recvs_alloc_unchecked ==
    /\ pc = "recvs_alloc"
    /\ allocs' = allocs + 1
    /\ \E b \in ExtentBases \cup {NullPtr}, k \in LKeys :
          ring_extent' = [buf |-> b, lkey |-> IF b = NullPtr THEN 0 ELSE k]
    /\ loop_i' = 0
    /\ pc' = "recvs_loop"
    /\ UNCHANGED <<rpcVars, cfgVars, exc, scanVars, open_ctx, resolve, resVars,
                   ahVars, recv_sgl, recv_wr, rx_ring, posted, assert_failed,
                   recvs_done, send_wr>>

\* init_recvs: the one huge_alloc->alloc for the whole ring; a null buffer
\* is reported with a runtime_error.
recvs_alloc ==
    /\ pc = "recvs_alloc"
    /\ allocs' = allocs + 1
    /\ \/ /\ ring_extent' = [buf |-> NullPtr, lkey |-> 0]
          /\ Throw("init_thrown", "Failed to allocate ring buffers")
          /\ UNCHANGED loop_i
       \/ /\ \E b \in ExtentBases, k \in LKeys :
                ring_extent' = [buf |-> b, lkey |-> k]
          /\ loop_i' = 0
          /\ pc' = "recvs_loop"
          /\ UNCHANGED exc
    /\ UNCHANGED <<rpcVars, cfgVars, scanVars, open_ctx, resolve, resVars, ahVars,
                   recv_sgl, recv_wr, rx_ring, posted, assert_failed,
                   recvs_done, send_wr>>

\* A faulty offset: 64 bytes given up instead of 64 - kGRHBytes.
RecvOffset_whole_pad(i) == (i * kRecvSize) + 64

\* "From each slot of size kRecvSize = (kMTU + 64), we give up the first
\* (64 - kGRHBytes) bytes."
RecvOffset(i) == (i * kRecvSize) + (64 - kGRHBytes)

\* A faulty entry: a key per buffer instead of the extent's key.
SglEntry_own_key(i) ==
    [length |-> kRecvSize,
     lkey |-> ring_extent.lkey + i,
     addr |-> ring_extent.buf + (i * kRecvSize) + (64 - kGRHBytes)]

SglEntry(i) ==
    [length |-> kRecvSize,
     lkey |-> ring_extent.lkey,
     addr |-> ring_extent.buf + RecvOffset(i)]

WrEntry(i) ==
    [wr_id |-> SglEntry(i).addr + kGRHBytes,
     sg_list |-> i,
     num_sge |-> 1,
     next |-> IF i < kRQDepth - 1 THEN i + 1 ELSE 0]

RxRingEntry(i) == ring_extent.buf + RecvOffset(i) + kGRHBytes

\* One iteration of the descriptor loop of init_recvs.
recvs_loop ==
    /\ pc = "recvs_loop"
    /\ loop_i < kRQDepth
    /\ assert_failed' =
          (assert_failed \/ ~(RecvOffset(loop_i) + (kGRHBytes + kMTU)
                                 <= ring_extent_size))
    /\ recv_sgl' = [recv_sgl EXCEPT ![loop_i] = SglEntry(loop_i)]
    /\ recv_wr' = [recv_wr EXCEPT ![loop_i] = WrEntry(loop_i)]
    /\ rx_ring' = [rx_ring EXCEPT ![loop_i] = RxRingEntry(loop_i)]
    /\ loop_i' = loop_i + 1
    /\ UNCHANGED <<rpcVars, cfgVars, pc, exc, scanVars, open_ctx, resolve, resVars,
                   ahVars, ring_extent, allocs, posted, recvs_done, send_wr>>

\* A faulty post: the ring is handed over still closed.
BreakChain_missing(wr) == wr

\* "Breaker of chains": the last descriptor's next is cleared for the post.
BreakChain(wr) == [wr EXCEPT ![kRQDepth - 1].next = NullPtr]

recvs_break ==
    /\ pc = "recvs_loop"
    /\ loop_i >= kRQDepth
    /\ recv_wr' = BreakChain(recv_wr)
    /\ pc' = "recvs_post"
    /\ UNCHANGED <<rpcVars, cfgVars, exc, scanVars, open_ctx, resolve, resVars, ahVars,
                   ring_extent, allocs, loop_i, recv_sgl, rx_ring, posted,
                   assert_failed, recvs_done, send_wr>>

\* The descriptors a post starting at descriptor i takes: it follows next
\* until null, and gives up once the chain is longer than the queue.
RECURSIVE WalkFrom(_, _, _)
WalkFrom(wr, i, fuel) ==
    IF i = NullPtr \/ fuel = 0
    THEN <<>>
    ELSE <<i>> \o WalkFrom(wr, wr[i].next, fuel - 1)

PostedChain(wr) == WalkFrom(wr, 0, kRQDepth + 1)

\* ibv_post_recv(qp, &recv_wr[0], &bad_wr): a chain longer than the queue's
\* max_recv_wr = kRQDepth cannot be posted; any post may fail.
recvs_post ==
    /\ pc = "recvs_post"
    /\ posted' = PostedChain(recv_wr)
    /\ \/ /\ Throw("init_thrown", "Failed to fill RECV queue.")
       \/ /\ Len(PostedChain(recv_wr)) <= kRQDepth
          /\ pc' = "recvs_restore"
          /\ UNCHANGED exc
    /\ UNCHANGED <<rpcVars, cfgVars, scanVars, open_ctx, resolve, resVars, ahVars,
                   ring_extent, allocs, loop_i, recv_sgl, recv_wr, rx_ring,
                   assert_failed, recvs_done, send_wr>>

\* "Restore circularity", and init_recvs returns.
RestoreChain(wr) == [wr EXCEPT ![kRQDepth - 1].next = 0]

recvs_restore ==
    /\ pc = "recvs_restore"
    /\ recv_wr' = RestoreChain(recv_wr)
    /\ recvs_done' = TRUE
    /\ pc' = "init_sends"
    /\ UNCHANGED <<rpcVars, cfgVars, exc, scanVars, open_ctx, resolve, resVars, ahVars,
                   ring_extent, allocs, loop_i, recv_sgl, rx_ring, posted,
                   assert_failed, send_wr>>

init_recvs == recvs_alloc \/ recvs_loop \/ recvs_break \/ recvs_post \/ recvs_restore

\* init_sends: send work request i is chained to i + 1.
init_sends ==
    /\ pc = "init_sends"
    /\ send_wr' = [i \in 0..(kPostlist - 1) |-> i + 1]
    /\ pc' = "ready"
    /\ UNCHANGED <<rpcVars, cfgVars, exc, scanVars, open_ctx, resolve, resVars, ahVars,
                   ring_extent, allocs, loop_i, recv_sgl, recv_wr, rx_ring,
                   posted, assert_failed, recvs_done>>

\* ------------------------------------- IBTransport: remote routing info

\* A faulty result: success reported whatever create_ah gave.
AhResolved_always(ah) == TRUE

\* The GID a peer's routing info carries: peers fill it in only for RoCE.
PeerGids == IF is_roce THEN {1, 2} ELSE {0}

\* "return (ib_rinfo->ah != nullptr)"
AhResolved(ah) == ah # NullPtr

\* resolve_remote_routing_info: the handle create_ah gives, null or not, is
\* stored in the routing info, and the call reports whether it is non-null.
resolve_remote_routing_info(lid, gid) ==
    /\ pc \in {"constructed", "ready"}
    /\ ah_made < MaxPeerAh
    /\ LET ib_rinfo == [NoRInfo EXCEPT !.port_lid = lid, !.gid = gid, !.qpn = 1]
       IN \E ah \in {0, ah_made + 1} :
             /\ rinfo' = [ib_rinfo EXCEPT
                            !.ah = IF ah = 0 THEN NullPtr ELSE ah,
                            !.ah_attr = create_ah(ib_rinfo)]
             /\ rr_ret' = AhResolved(rinfo'.ah)
             /\ ah_made' = IF ah = 0 THEN ah_made ELSE ah
    /\ UNCHANGED <<rpcVars, cfgVars, pc, exc, scanVars, open_ctx, resolve, resVars,
                   recvVars>>

\* ------------------------------------------ IBTransport: the destructor

\* A faulty order: the PD is deallocated while the QP made from it lives.
DestroyOrder_pd_first == <<"pd", "qp", "send_cq", "recv_cq", "self_ah", "ctx">>

\* The destructor's calls, in its order: ibv_destroy_qp, ibv_destroy_cq of
\* the send CQ, of the recv CQ, ibv_destroy_ah, ibv_dealloc_pd,
\* ibv_close_device.
DestroyOrder == <<"qp", "send_cq", "recv_cq", "self_ah", "pd", "ctx">>

\* ~IBTransport is entered on a constructed transport.
destructor ==
    /\ pc \in {"constructed", "ready", "init_thrown"}
    /\ pc' = "destroying"
    /\ UNCHANGED <<rpcVars, cfgVars, exc, scanVars, open_ctx, resolve, resVars,
                   recvVars, ahVars>>

\* The next destroy call: it returns 0, or exit_assert ends the process.
destroy_next ==
    /\ pc = "destroying"
    /\ Len(rel) < Len(DestroyOrder)
    /\ LET r == DestroyOrder[Len(rel) + 1]
       IN \/ /\ rel' = Append(rel, r)
             /\ qp_state' = IF r = "qp" THEN "none" ELSE qp_state
             /\ open_ctx' = IF r = "ctx" THEN open_ctx \ {resolve.ib_ctx}
                            ELSE open_ctx
             /\ UNCHANGED <<pc, exc>>
          \/ /\ Throw("exited", "Failed to destroy " \o r)
             /\ UNCHANGED <<rel, qp_state, open_ctx>>
    /\ UNCHANGED <<rpcVars, cfgVars, scanVars, resolve, acq, use_fast_recv, recvVars,
                   ahVars>>

destroy_done ==
    /\ pc = "destroying"
    /\ Len(rel) = Len(DestroyOrder)
    /\ pc' = "destroyed"
    /\ UNCHANGED <<rpcVars, cfgVars, exc, scanVars, open_ctx, resolve, resVars,
                   recvVars, ahVars>>

IBTransport_destructor == destructor \/ destroy_next \/ destroy_done

\* --------------------------------------------------------- specifications

Next ==
    \/ resolve_phy_port
    \/ init_verbs_structs
    \/ init_mem_reg_funcs
    \/ init_hugepage_structures
    \/ init_recvs
    \/ init_sends
    \/ \E lid \in Lids, gid \in PeerGids : resolve_remote_routing_info(lid, gid)
    \/ IBTransport_destructor

Spec == Init /\ [][Next]_vars

InitRpc ==
    /\ RpcConstructed
    /\ IbAtRest

NextRpc ==
    \/ \E req \in ReqIds : send_request(req)
    \/ \E req \in ReqIds : send_response(req)
    \/ run_event_loop
    \/ resolve_session
    \/ disconnect

SpecRpc == InitRpc /\ [][NextRpc]_vars

\* The event loop keeps being run by the application.
FairSpecRpc == SpecRpc /\ WF_vars(run_event_loop)

\* ------------------------------------------------------------ the claims

\* C1 (as claimed): on a CONNECTED session whose window is full, a further
\* send_request reports WindowFull, sends no packet and leaves the window as
\* it was.
C1_WindowFullReported ==
    (call.op = "send_request" /\ call.sstate = "CONNECTED"
        /\ WindowIsFull(call.win))
    => (ret = "WindowFull" /\ wire = call.wire /\ window = call.win)

\* C2 (as claimed): every request submitted on a CONNECTED session within
\* the window bound is eventually resolved (its continuation is given a
\* completion or an error) while the event loop keeps running, and a window
\* slot passes to another request only once its request is resolved. (A
\* process that has faulted runs no event loop and is not held to this.)
C2_EveryRequestResolves ==
    /\ \A r \in ReqIds :
          [](r \in issued => <>(delivered[r] # <<>> \/ rpc_pc = "crashed"))
    /\ [][\A s \in Slots :
            (window[s] # NoReq /\ window'[s] # window[s])
                => delivered'[window[s]] # <<>>]_vars

\* C3 (as claimed): a request submitted on a session that is not CONNECTED
\* is rejected with SessionNotConnected, no packet is sent and no window
\* slot is taken.
C3_NotConnectedReported ==
    (call.op = "send_request"
        /\ call.sstate \in SessionStates \ {"CONNECTED"})
    => (ret = "SessionNotConnected" /\ wire = call.wire /\ window = call.win)

\* Connect-requests sent after the first one.
Retransmissions == IF resolve_msgs > 0 THEN resolve_msgs - 1 ELSE 0

\* C4 (as claimed): once a session is being resolved towards an endpoint that
\* never answers, exactly max_retries retransmissions are sent, after which
\* ConnectFailed is surfaced and the session object no longer exists. (A
\* process that has faulted in the call is not held to this.)
C4_ConnectFailedAfterRetries ==
    [](call.op = "resolve_session"
        => <>(\/ /\ ret = "ConnectFailed"
                 /\ Retransmissions = max_retries
                 /\ sess_state = "freed"
              \/ rpc_pc = "crashed"))

Reverse(s) == [k \in 1..Len(s) |-> s[Len(s) + 1 - k]]

\* C6 (as claimed): the destructor releases the resources in exactly the
\* reverse of the order they were acquired in.
C6_StrictReverseOrder ==
    pc = "destroyed" => rel = Reverse(acq)

\* C6 (amended): the resources are acquired in the order device context, PD,
\* send CQ, recv CQ, QP, self AH; the destructor releases them in the order
\* QP, send CQ, recv CQ, self AH, PD, device context, each at most once and,
\* when it completes, each exactly once; no resource is released while a
\* resource created from it is still held.
C6_DestructorOrder ==
    LET order == <<"qp", "send_cq", "recv_cq", "self_ah", "pd", "ctx">>
    IN /\ Len(rel) <= Len(order)
       /\ \A k \in 1..Len(rel) : rel[k] = order[k]
       /\ \A k \in 1..Len(rel) : \A d \in Range(acq) :
             rel[k] \in CreatedFrom(d) => \E j \in 1..(k - 1) : rel[j] = d
       /\ pc = "destroyed"
             => /\ rel = order
                /\ acq = <<"ctx", "pd", "send_cq", "recv_cq", "qp", "self_ah">>

\* C6's case: a destructor that ran to completion.
C6_Witness ==
    pc = "destroyed" /\ Len(rel) = 6 /\ Live = {}

\* C7: resolve_remote_routing_info returns true exactly when an address
\* handle was created: the handle is then stored in the routing info; it
\* returns false with a null handle when creation fails.
C7_ResolveReportsHandle ==
    /\ rr_ret <=> rinfo.ah # NullPtr
    /\ rr_ret => rinfo.ah \in 1..ah_made
    /\ rinfo.ah # NullPtr => rinfo.ah_attr = create_ah(rinfo)

\* C7's case: a resolution that failed after an earlier one had succeeded.
C7_Witness ==
    rinfo.qpn = 1 /\ ~rr_ret /\ rinfo.ah = NullPtr /\ ah_made = 1

\* C8: init_recvs makes one allocation for the whole receive ring, and every
\* receive descriptor carries the lkey of that one extent.
C8_OneExtentOneKey ==
    /\ allocs <= 1
    /\ \A i \in RingIdx :
          recv_sgl[i].length # 0 => recv_sgl[i].lkey = ring_extent.lkey
    /\ recvs_done
          => /\ allocs = 1
             /\ ring_extent.buf # NullPtr
             /\ \A i \in RingIdx : recv_sgl[i].length # 0

\* C8's case: init_recvs has returned with all descriptors written.
C8_Witness ==
    recvs_done /\ pc = "ready" /\ recv_sgl[kRQDepth - 1].lkey \in LKeys

C10_SlotHoldsGrhAndPayload ==
    /\ ~assert_failed
    /\ \A i \in RingIdx :
          recv_sgl[i].length # 0 =>
             LET offset == recv_sgl[i].addr - ring_extent.buf
             IN /\ offset = i * kRecvSize + (64 - kGRHBytes)
                /\ i * kRecvSize <= offset
                /\ offset + kGRHBytes + kMTU <= (i + 1) * kRecvSize
                /\ offset + kGRHBytes + kMTU <= kNumRxRingEntries * kRecvSize
                /\ rx_ring[i] = ring_extent.buf + offset + kGRHBytes
                /\ \A j \in RingIdx :
                      (j # i /\ recv_sgl[j].length # 0)
                         => \/ rx_ring[i] + kMTU <= rx_ring[j]
                            \/ rx_ring[j] + kMTU <= rx_ring[i]

\* C10's case: the last slot of the ring has been laid out.
C10_Witness ==
    /\ recv_sgl[kRQDepth - 1].length # 0
    /\ rx_ring[kRQDepth - 1] = ring_extent.buf + (kRQDepth - 1) * kRecvSize + 64
    /\ ring_extent.buf # 0

\* ------------------------------------------------------------------------ C11
\* C11: resolve_phy_port records the phy_port-th port (counting from zero) that
\* the hardware reported ACTIVE or ACTIVE_DEFER, in device order then port
\* order: when a port is recorded it is the one under the scan, it was
\* reported active and exactly phy_port active ports came before it, and its
\* device index, port number and LID are the ones stored. When the scan ends
\* with "Failed to resolve InfiniBand port index", at most phy_port active
\* ports were met and nothing is recorded.
C11_Recorded ==
    resolve.ib_ctx # NullPtr =>
        /\ sel_active
        /\ active_seen = phy_port + 1
        /\ resolve.device_id \in 0..(MaxDevices - 1)
        /\ resolve.dev_port_id \in 1..MaxPorts
        /\ resolve.port_lid \in Lids

C11_NothingOnFailure ==
    exc = "Failed to resolve InfiniBand port index" =>
        /\ active_seen <= phy_port
        /\ resolve = NoResolve

C11_RecordsPortUnderScan ==
    resolve' # resolve =>
        /\ pc = "rp_port"
        /\ resolve'.device_id = dev_i
        /\ resolve'.ib_ctx = dev_i
        /\ resolve'.dev_port_id = port_i
        /\ dev_i \in open_ctx

C11_SelectsNthActivePort ==
    /\ [](C11_Recorded /\ C11_NothingOnFailure)
    /\ [][C11_RecordsPortUnderScan]_vars

\* The second active port is found on the second device.
C11_Witness ==
    /\ pc = "alloc_pd"
    /\ phy_port = 1
    /\ resolve.device_id = 1
    /\ active_seen = 2
    /\ sel_active

\* ------------------------------------------------------------------------ C12
\* C12: during setup the queue pair only moves created (RESET) -> INIT -> RTR
\* -> RTS, one step at a time, so no state is skipped or entered twice; the
\* self address handle is created while the QP is in RTR, that is after the QP
\* exists and before the move to RTS; once a transition has failed the setup
\* takes no further step, so no later transition happens and no receive is
\* posted; and receives are allocated, built and posted only while the QP is
\* in RTS.
QpSetupMoves ==
    {<<"none", "RESET">>, <<"RESET", "INIT">>, <<"INIT", "RTR">>,
     <<"RTR", "RTS">>}

C12_QpMovesInOrder ==
    qp_state' # qp_state =>
        \/ <<qp_state, qp_state'>> \in QpSetupMoves
        \/ pc = "destroying" /\ qp_state' = "none"

C12_SelfAhBetweenRtrAndRts ==
    /\ ("self_ah" \in Range(acq') /\ "self_ah" \notin Range(acq)) =>
           /\ "qp" \in Live
           /\ qp_state = "RTR"
           /\ qp_state' = "RTR"
    /\ (qp_state' = "RTS" /\ qp_state # "RTS") => "self_ah" \in Live

C12_FailedTransitionAborts ==
    exc \in {"Failed to modify QP to init", "Failed to modify QP to RTR",
             "Failed to modify QP to RTS"} =>
        /\ UNCHANGED vars
        /\ pc = "ctor_thrown"
        /\ qp_state # "RTS"
        /\ allocs = 0
        /\ posted = <<>>

C12_RecvsOnlyInRts ==
    (allocs' # allocs \/ recv_wr' # recv_wr \/ posted' # posted) =>
        /\ qp_state = "RTS"
        /\ "qp" \in Live

C12_QpStateMachine ==
    [][/\ C12_QpMovesInOrder
       /\ C12_SelfAhBetweenRtrAndRts
       /\ C12_FailedTransitionAborts
       /\ C12_RecvsOnlyInRts]_vars

\* The QP is in RTS with its self address handle and the whole chain posted.
C12_Witness ==
    /\ qp_state = "RTS"
    /\ "self_ah" \in Live
    /\ Len(posted) = kRQDepth
    /\ pc = "ready"

\* ------------------------------------------------------------------------ C13
\* C13: when the allocator returns a null buffer for the receive ring,
\* init_recvs throws "Failed to allocate ring buffers" at once: no receive
\* descriptor is initialised, nothing is posted, no rx_ring entry is written
\* and init_sends does not run; the caller gets the exception from
\* init_hugepage_structures, the process is not ended by it.
AllocFailed == allocs = 1 /\ ring_extent.buf = NullPtr

C13_NothingBuilt ==
    AllocFailed =>
        /\ exc \in {"Failed to allocate ring buffers"}
                   \cup {"Failed to destroy " \o r : r \in Range(DestroyOrder)}
        /\ \A i \in RingIdx : recv_sgl[i] = NoSgl /\ recv_wr[i] = NoWr
        /\ \A i \in 0..(kNumRxRingEntries - 1) : rx_ring[i] = NullPtr
        /\ posted = <<>>
        /\ \A i \in 0..(kPostlist - 1) : send_wr[i] = NullPtr
        /\ ~recvs_done
        /\ pc \notin {"recvs_loop", "recvs_post", "recvs_restore", "init_sends",
                      "ready"}

C13_ReportedToCaller ==
    (AllocFailed' /\ ~AllocFailed) =>
        /\ pc = "recvs_alloc"
        /\ pc' = "init_thrown"
        /\ exc' = "Failed to allocate ring buffers"

C13_AllocFailureIsClean ==
    /\ []C13_NothingBuilt
    /\ [][C13_ReportedToCaller]_vars

\* The allocation has just failed and the caller holds the exception.
C13_Witness ==
    /\ AllocFailed
    /\ pc = "init_thrown"
    /\ exc = "Failed to allocate ring buffers"
    /\ qp_state = "RTS"

\* ------------------------------------------------------------------------ C14
\* C14: construction never leaks a hardware resource: when the constructor has
\* ended in an exception no device context is open and no PD, CQ, QP or
\* address handle is held; when it has succeeded exactly one device context,
\* the selected one, is open.
C14_NoLeakOnConstruction ==
    /\ pc = "ctor_thrown" => (open_ctx = {} /\ Live = {})
    /\ pc = "constructed" => (open_ctx = {resolve.ib_ctx} /\ resolve.ib_ctx # NullPtr)

\* ------------------------------------------------------------------------ C15
\* C15: the byte range [addr, addr + length) of every initialised receive
\* descriptor, with addr = base + i * kRecvSize + (64 - kGRHBytes) and
\* length = kRecvSize, lies inside the ring extent of
\* kNumRxRingEntries * kRecvSize bytes, the last descriptor's included, and
\* the ranges of two different descriptors do not overlap.
C15_PostedRangeInsideExtent ==
    \A i \in RingIdx :
        recv_sgl[i].length # 0 =>
            LET lo == recv_sgl[i].addr
                hi == recv_sgl[i].addr + recv_sgl[i].length
            IN /\ lo = ring_extent.buf + i * kRecvSize + (64 - kGRHBytes)
               /\ recv_sgl[i].length = kRecvSize
               /\ ring_extent.buf <= lo
               /\ hi <= ring_extent.buf + kNumRxRingEntries * kRecvSize
               /\ \A j \in RingIdx :
                     (j # i /\ recv_sgl[j].length # 0)
                        => \/ hi <= recv_sgl[j].addr
                           \/ recv_sgl[j].addr + recv_sgl[j].length <= lo

\* ------------------------------------------------------------------------ C16
\* C16: whenever resolve_session has run on a constructed Rpc, the transport
\* member it went through is the Transport_ object the Rpc's constructor
\* created, never an unset pointer, the call did not fault, and the hook
\* registered with the Nexus is this Rpc's sm_hook.
C16_ResolveUsesOwnTransport ==
    call.op = "resolve_session" =>
        /\ transport # "unset"
        /\ transport \in heap
        /\ rpc_pc # "crashed"
        /\ nexus_hooks = {"sm_hook"}

=============================================================================
